---- MODULE Spec2Model ----
(***************************************************************************)
(* Userland syscall shim of rv6: the arity-specialised invokers            *)
(* __syscall0 .. __syscall5 (userland/include/uapi/syscall.h) and the      *)
(* write wrapper (userland/lib/write.c).                                   *)
(*                                                                         *)
(* Every thread owns a call stack of activation frames and a return-value  *)
(* register.  A C call pushes a frame holding the callee's parameters, a   *)
(* return pops it and leaves the result in the return-value register.      *)
(* The primitive __syscall6 is only declared in the header; its body (the  *)
(* trap) is modelled as the kernel answering with an arbitrary word.       *)
(*                                                                         *)
(* Machine types are scaled down: long / unsigned long / pointers are      *)
(* WordBits wide, int is IntBits wide (IntBits < WordBits, as 32 < 64 on   *)
(* the riscv64 target).                                                    *)
(***************************************************************************)
EXTENDS Integers, Sequences, FiniteSets, TLC

\* ------------------------------------------------------------------ bounds
NumThreads == 2
MaxCalls == 2
WordBits == 7
IntBits == 4

Threads == 1..NumThreads

\* ------------------------------------------------------------- word model
WordMod == 2 ^ WordBits
MaxWord == 2 ^ (WordBits - 1) - 1
MinWord == 0 - 2 ^ (WordBits - 1)
IntMod == 2 ^ IntBits

\* value of a w-bit two's complement pattern p (0 <= p < 2^w)
SignedOf(p, w) == IF p >= 2 ^ (w - 1) THEN p - 2 ^ w ELSE p

\* variant of LongOfInt: the int's pattern zero-extended instead of sign-extended
LongOfInt_zext(fd) == fd % IntMod

\* (long)fd with fd an int: the int's IntBits-wide pattern, sign-extended
LongOfInt(fd) == SignedOf(fd % IntMod, IntBits)

\* (long)buf: the address bits reinterpreted as a signed word
LongOfPtr(buf) == SignedOf(buf % WordMod, WordBits)

\* (long)count with count an unsigned long: same bits, read as signed
LongOfULong(count) == SignedOf(count % WordMod, WordBits)

\* #define __NR_write 0
NR_write == 0

\* ------------------------------------------------------------ input sets
\* invoker calls <<n, a0, .., a(K-1)>>: every arity with pairwise distinct
\* words, and the largest arity with a second number and with negative, zero
\* and extreme words
Distinct5 == <<11, 12, 13, 14, 15>>
InvokerCalls ==
    { <<42>> \o SubSeq(Distinct5, 1, K) : K \in 0..5 }
        \cup { <<7, -1, MinWord, 0, MaxWord, -2>> }
\* a buffer address in the upper half of the address space
HighBuf == 2 ^ (WordBits - 1) + 16
\* write calls <<fd, buf, count>>
WriteArgs ==
    { <<1, 16, 2>>, <<-1, 16, 0>>, <<-1, HighBuf, WordMod - 1>> }
Results == {-14, 0, 2}

\* ----------------------------------------------------------------- state
VARIABLES
    stack,   \* stack[t]: sequence of frames [fn, a], innermost last
    rv,      \* rv[t]: return-value register, <<>> or <<word>>
    call,    \* call[t]: <<>> or <<frame>> of the outermost call in progress / last completed
    trapw,   \* trapw[t]: the 7-word tuples handed to __syscall6 by the current call
    kres,    \* kres[t]: the words the kernel returned to the current call
    calls,   \* number of calls started by the application
    traps    \* number of __syscall6 invocations

vars == <<stack, rv, call, trapw, kres, calls, traps>>

Frame(fn, a) == [fn |-> fn, a |-> a]
Top(t) == stack[t][Len(stack[t])]
Pop(s) == SubSeq(s, 1, Len(s) - 1)
InFn(t, fn) == stack[t] # <<>> /\ Top(t).fn = fn

Init ==
    /\ stack = [t \in Threads |-> <<>>]
    /\ rv = [t \in Threads |-> <<>>]
    /\ call = [t \in Threads |-> <<>>]
    /\ trapw = [t \in Threads |-> <<>>]
    /\ kres = [t \in Threads |-> <<>>]
    /\ calls = 0
    /\ traps = 0

\* ------------------------------------------------- application-side calls
\* the application calls fn with parameters a on thread t
Enter(t, fn, a) ==
    /\ stack[t] = <<>>
    /\ calls < MaxCalls
    /\ stack' = [stack EXCEPT ![t] = <<Frame(fn, a)>>]
    /\ rv' = [rv EXCEPT ![t] = <<>>]
    /\ call' = [call EXCEPT ![t] = <<Frame(fn, a)>>]
    /\ trapw' = [trapw EXCEPT ![t] = <<>>]
    /\ kres' = [kres EXCEPT ![t] = <<>>]
    /\ calls' = calls + 1
    /\ UNCHANGED traps

InvokerName(K) ==
    CASE K = 0 -> "__syscall0" [] K = 1 -> "__syscall1" [] K = 2 -> "__syscall2"
      [] K = 3 -> "__syscall3" [] K = 4 -> "__syscall4" [] K = 5 -> "__syscall5"

Call_syscall(t, K, n, a) == Enter(t, InvokerName(K), <<n>> \o a)

Call_write(t, fd, buf, count) == Enter(t, "write", <<fd, buf, count>>)

\* ---------------------------------------------------------------- callee
\* a call expression callee(a) evaluated in the top frame of t
PushCall(t, fn, a) ==
    /\ stack' = [stack EXCEPT ![t] = Append(@, Frame(fn, a))]
    /\ UNCHANGED <<rv, call, calls>>

\* __syscall6(n, a0, .., a5) is entered: the trap is issued with words w
Trap(t, w) ==
    /\ PushCall(t, "__syscall6", w)
    /\ trapw' = [trapw EXCEPT ![t] = Append(@, w)]
    /\ traps' = traps + 1
    /\ UNCHANGED kres

Running(t, fn) == InFn(t, fn) /\ rv[t] = <<>>
Returned(t, fn) == InFn(t, fn) /\ rv[t] # <<>>
P(t) == Top(t).a

__syscall0(t) ==
    /\ Running(t, "__syscall0")
    /\ Trap(t, <<P(t)[1], 0, 0, 0, 0, 0, 0>>)

__syscall1(t) ==
    /\ Running(t, "__syscall1")
    /\ Trap(t, <<P(t)[1], P(t)[2], 0, 0, 0, 0, 0>>)

__syscall2(t) ==
    /\ Running(t, "__syscall2")
    /\ Trap(t, <<P(t)[1], P(t)[2], P(t)[3], 0, 0, 0, 0>>)

__syscall3(t) ==
    /\ Running(t, "__syscall3")
    /\ Trap(t, <<P(t)[1], P(t)[2], P(t)[3], P(t)[4], 0, 0, 0>>)

__syscall4(t) ==
    /\ Running(t, "__syscall4")
    /\ Trap(t, <<P(t)[1], P(t)[2], P(t)[3], P(t)[4], P(t)[5], 0, 0>>)

\* variant of __syscall5: the last slot repeats a4 instead of holding zero
__syscall5_dup(t) ==
    /\ Running(t, "__syscall5")
    /\ Trap(t, <<P(t)[1], P(t)[2], P(t)[3], P(t)[4], P(t)[5], P(t)[6], P(t)[6]>>)

__syscall5(t) ==
    /\ Running(t, "__syscall5")
    /\ Trap(t, <<P(t)[1], P(t)[2], P(t)[3], P(t)[4], P(t)[5], P(t)[6], 0>>)

\* variant of write: buf and count passed in each other's slot
write_swapped(t) ==
    /\ Running(t, "write")
    /\ PushCall(t, "__syscall3",
                <<NR_write, LongOfInt(P(t)[1]), LongOfULong(P(t)[3]), LongOfPtr(P(t)[2])>>)
    /\ UNCHANGED <<trapw, kres, traps>>

\* variant of write: a zero-length request returns 0 without a syscall
write_shortcircuit(t) ==
    /\ Running(t, "write")
    /\ IF P(t)[3] = 0
       THEN /\ rv' = [rv EXCEPT ![t] = <<0>>]
            /\ UNCHANGED <<stack, call, calls>>
       ELSE PushCall(t, "__syscall3",
                     <<NR_write, LongOfInt(P(t)[1]), LongOfPtr(P(t)[2]), LongOfULong(P(t)[3])>>)
    /\ UNCHANGED <<trapw, kres, traps>>

\* variant of write: the syscall number is read from a table that earlier traps have changed
write_nr_mutable(t) ==
    /\ Running(t, "write")
    /\ PushCall(t, "__syscall3",
                <<traps, LongOfInt(P(t)[1]), LongOfPtr(P(t)[2]), LongOfULong(P(t)[3])>>)
    /\ UNCHANGED <<trapw, kres, traps>>

\* write's body reaches the call __syscall3(__NR_write, (long)fd, (long)buf, (long)count)
write(t) ==
    /\ Running(t, "write")
    /\ PushCall(t, "__syscall3",
                <<NR_write, LongOfInt(P(t)[1]), LongOfPtr(P(t)[2]), LongOfULong(P(t)[3])>>)
    /\ UNCHANGED <<trapw, kres, traps>>

\* the trap returns: the kernel leaves result word r in the return register
__syscall6(t, r) ==
    /\ Running(t, "__syscall6")
    /\ stack' = [stack EXCEPT ![t] = Pop(@)]
    /\ rv' = [rv EXCEPT ![t] = <<r>>]
    /\ kres' = [kres EXCEPT ![t] = Append(@, r)]
    /\ UNCHANGED <<call, trapw, calls, traps>>

\* "return <callee>(...);" in frame fn: the callee's long result is returned as long
ReturnFrom(t, fn) ==
    /\ Returned(t, fn)
    /\ stack' = [stack EXCEPT ![t] = Pop(@)]
    /\ UNCHANGED <<rv, call, trapw, kres, calls, traps>>

IsInvoker(fn) == fn \in { InvokerName(K) : K \in 0..5 }

\* variant of syscallN_return: a negative result is translated to -1
syscallN_return_errno(t) ==
    /\ stack[t] # <<>>
    /\ IsInvoker(Top(t).fn)
    /\ Returned(t, Top(t).fn)
    /\ stack' = [stack EXCEPT ![t] = Pop(@)]
    /\ rv' = [rv EXCEPT ![t] = IF @[1] < 0 THEN <<-1>> ELSE @]
    /\ UNCHANGED <<call, trapw, kres, calls, traps>>

\* variant of syscallN_return: the result is read from a slot that another
\* thread with a pending result has overwritten
syscallN_return_shared(t) ==
    LET S == { u \in Threads \ {t} : stack[u] # <<>> /\ rv[u] # <<>> }
    IN  /\ stack[t] # <<>>
        /\ IsInvoker(Top(t).fn)
        /\ Returned(t, Top(t).fn)
        /\ stack' = [stack EXCEPT ![t] = Pop(@)]
        /\ rv' = [rv EXCEPT ![t] = IF S = {} THEN @ ELSE rv[CHOOSE u \in S : TRUE]]
        /\ UNCHANGED <<call, trapw, kres, calls, traps>>

\* variant of syscallN_return: the invoker may give up on a trap that has not
\* returned and return -1
syscallN_return_timeout(t) ==
    \/ /\ stack[t] # <<>>
       /\ IsInvoker(Top(t).fn)
       /\ ReturnFrom(t, Top(t).fn)
    \/ /\ InFn(t, "__syscall6")
       /\ stack' = [stack EXCEPT ![t] = Pop(Pop(@))]
       /\ rv' = [rv EXCEPT ![t] = <<-1>>]
       /\ UNCHANGED <<call, trapw, kres, calls, traps>>

\* variant of syscallN_return: a negative result is retried once
syscallN_return_retry(t) ==
    /\ stack[t] # <<>>
    /\ IsInvoker(Top(t).fn)
    /\ Returned(t, Top(t).fn)
    /\ IF rv[t][1] < 0 /\ Len(trapw[t]) < 2
       THEN /\ stack' = [stack EXCEPT ![t] = Append(@, Frame("__syscall6", trapw[t][1]))]
            /\ rv' = [rv EXCEPT ![t] = <<>>]
            /\ trapw' = [trapw EXCEPT ![t] = Append(@, @[1])]
            /\ traps' = traps + 1
            /\ UNCHANGED <<call, kres, calls>>
       ELSE /\ stack' = [stack EXCEPT ![t] = Pop(@)]
            /\ UNCHANGED <<rv, call, trapw, kres, calls, traps>>

syscallN_return(t) ==
    /\ stack[t] # <<>>
    /\ IsInvoker(Top(t).fn)
    /\ ReturnFrom(t, Top(t).fn)

\* variant of write_return: a negative result is translated to -1
write_return_errno(t) ==
    /\ Returned(t, "write")
    /\ stack' = [stack EXCEPT ![t] = Pop(@)]
    /\ rv' = [rv EXCEPT ![t] = IF @[1] < 0 THEN <<-1>> ELSE @]
    /\ UNCHANGED <<call, trapw, kres, calls, traps>>

write_return(t) == ReturnFrom(t, "write")

Next ==
    \/ \E t \in Threads, c \in InvokerCalls : Call_syscall(t, Len(c) - 1, c[1], Tail(c))
    \/ \E t \in Threads, w \in WriteArgs : Call_write(t, w[1], w[2], w[3])
    \/ \E t \in Threads : __syscall0(t)
    \/ \E t \in Threads : __syscall1(t)
    \/ \E t \in Threads : __syscall2(t)
    \/ \E t \in Threads : __syscall3(t)
    \/ \E t \in Threads : __syscall4(t)
    \/ \E t \in Threads : __syscall5(t)
    \/ \E t \in Threads : write(t)
    \/ \E t \in Threads, r \in Results : __syscall6(t, r)
    \/ \E t \in Threads : syscallN_return(t)
    \/ \E t \in Threads : write_return(t)

Spec == Init /\ [][Next]_vars

\* ================================================================ claims
Last(s) == s[Len(s)]
Started(t) == call[t] # <<>>
Done(t) == Started(t) /\ stack[t] = <<>>
Delivered(t) == trapw[t] # <<>>
InTrap(t) == InFn(t, "__syscall6")
IsInvokerCall(t) == Started(t) /\ IsInvoker(call[t][1].fn)
IsWriteCall(t) == Started(t) /\ call[t][1].fn = "write"

\* the 7 words an arity-Len(args) invocation (n, args) has to deliver
Padded(n, args) ==
    [i \in 1..7 |-> IF i = 1 THEN n ELSE IF i - 1 <= Len(args) THEN args[i - 1] ELSE 0]

\* an unsigned word u (0 <= u < 2^WordBits) read as a signed word
AsSigned(u) == IF u > MaxWord THEN u - WordMod ELSE u

\* the 7 words the outermost call of t has to deliver
Expected(t) ==
    LET a == call[t][1].a
    IN  IF call[t][1].fn = "write"
        THEN <<0, a[1], AsSigned(a[2]), AsSigned(a[3]), 0, 0, 0>>
        ELSE Padded(a[1], Tail(a))

\* C1: an arity-K invoker called with (n, args) hands the primitive n, then
\* the K arguments in order, then zero in each of the remaining 6-K slots.
C1_ZeroPadded ==
    \A t \in Threads :
        (IsInvokerCall(t) /\ Delivered(t)) =>
            /\ trapw[t][1] = Padded(call[t][1].a[1], Tail(call[t][1].a))
            /\ (InTrap(t) => Top(t).a = trapw[t][1])

C1_Witness ==
    \E t, u \in Threads :
        /\ InTrap(t) /\ call[t] = <<Frame("__syscall0", <<42>>)>>
        /\ Top(t).a = <<42, 0, 0, 0, 0, 0, 0>>
        /\ InTrap(u) /\ call[u] = <<Frame("__syscall5", <<42, 11, 12, 13, 14, 15>>)>>
        /\ Top(u).a = <<42, 11, 12, 13, 14, 15, 0>>

\* C2: an invoker returns exactly the word the primitive returned.
C2_ResultIdentical ==
    \A t \in Threads :
        (IsInvokerCall(t) /\ Done(t)) => (kres[t] # <<>> /\ rv[t] = <<Last(kres[t])>>)

C2_Witness ==
    \E t, u \in Threads :
        /\ IsInvokerCall(t) /\ Done(t) /\ kres[t] = <<-14>> /\ rv[t] = <<-14>>
        /\ IsInvokerCall(u) /\ Done(u) /\ kres[u] = <<2>> /\ rv[u] = <<2>>

\* C3: write(fd, buf, count) hands the primitive number 0, fd, the address
\* of buf, count, and three zeros, and returns the primitive's result.
C3_WriteContract ==
    \A t \in Threads :
        IsWriteCall(t) =>
            /\ Delivered(t) =>
                LET w == trapw[t][1]
                    a == call[t][1].a
                IN  /\ w[1] = 0
                    /\ w[2] = a[1]
                    /\ w[3] % WordMod = a[2]
                    /\ w[4] % WordMod = a[3]
                    /\ w[5] = 0 /\ w[6] = 0 /\ w[7] = 0
            /\ Done(t) => (kres[t] # <<>> /\ rv[t] = <<Last(kres[t])>>)

C3_Witness ==
    \E t \in Threads :
        /\ Done(t) /\ call[t] = <<Frame("write", <<1, 16, 2>>)>>
        /\ trapw[t] = << <<0, 1, 16, 2, 0, 0, 0>> >>
        /\ rv[t] = <<2>>

\* C4: write with count = 0 still traps (slot 2 = 0) and returns the
\* primitive's result; no write call completes without a trap.
C4_ZeroCountTraps ==
    \A t \in Threads :
        (IsWriteCall(t) /\ Done(t)) =>
            /\ Delivered(t) /\ kres[t] # <<>>
            /\ call[t][1].a[3] = 0 =>
                  (trapw[t][1][4] = 0 /\ rv[t] = <<Last(kres[t])>>)

C4_Witness ==
    \E t \in Threads :
        /\ IsWriteCall(t) /\ Done(t) /\ call[t][1].a[3] = 0
        /\ trapw[t][1][4] = 0 /\ kres[t] = <<2>> /\ rv[t] = <<2>>

\* C5: the layer never fails on its own account: a started call that is not
\* inside the trap can always take its next step, a negative (error) word
\* from the primitive is returned as that same word, and returning a result
\* changes nothing but the returning thread's stack.
LayerStep(t) ==
    \/ __syscall0(t) \/ __syscall1(t) \/ __syscall2(t) \/ __syscall3(t)
    \/ __syscall4(t) \/ __syscall5(t) \/ write(t)
    \/ syscallN_return(t) \/ write_return(t)

C5_State ==
    \A t \in Threads :
        /\ (stack[t] # <<>> /\ ~InTrap(t)) => ENABLED LayerStep(t)
        /\ (kres[t] # <<>> /\ Last(kres[t]) < 0 /\ ~InTrap(t)) => rv[t] = <<Last(kres[t])>>

C5_Step ==
    \A t \in Threads :
        (stack[t] # <<>> /\ rv[t] # <<>> /\ stack'[t] # stack[t]) =>
            /\ stack'[t] = Pop(stack[t])
            /\ UNCHANGED <<rv, call, trapw, kres, calls, traps>>

C5_ForwardsErrors == [](C5_State) /\ [][C5_Step]_vars

C5_Witness ==
    \E t, u \in Threads :
        /\ IsWriteCall(t) /\ Done(t) /\ kres[t] = <<-14>> /\ rv[t] = <<-14>>
        /\ IsInvokerCall(u) /\ Done(u) /\ kres[u] = <<-14>> /\ rv[u] = <<-14>>

\* C6: with several threads issuing calls, each trap carries the words of
\* its own thread's call, each thread gets the result of its own trap, and
\* no step of one thread changes anything belonging to another thread.
Own(t) == <<stack[t], rv[t], call[t], trapw[t], kres[t]>>

C6_State ==
    \A t \in Threads :
        (\E u \in Threads \ {t} : Started(u)) =>
            /\ InTrap(t) => Top(t).a = Expected(t)
            /\ Delivered(t) => \A i \in 1..Len(trapw[t]) : trapw[t][i] = Expected(t)
            /\ (kres[t] # <<>> /\ ~InTrap(t)) => rv[t] = <<Last(kres[t])>>

C6_Step ==
    \A t \in Threads : \A u \in Threads \ {t} : (Own(t)' # Own(t)) => (Own(u)' = Own(u))

C6_NoInterference == [](C6_State) /\ [][C6_Step]_vars

C6_Witness ==
    \E t, u \in Threads :
        /\ t # u
        /\ IsWriteCall(t) /\ InTrap(t) /\ Top(t).a = Expected(t)
        /\ IsInvokerCall(u) /\ Returned(u, call[u][1].fn) /\ rv[u] = <<-14>>
        /\ call[u][1].a[1] = 42

\* C7: a call returns only after its trap has returned, and a thread inside
\* the trap leaves it only by the kernel returning a word.
C7_State ==
    \A t \in Threads :
        /\ Done(t) => (kres[t] # <<>> /\ Len(kres[t]) = Len(trapw[t]))
        /\ (Started(t) /\ ~InTrap(t)) => Len(kres[t]) = Len(trapw[t])
        /\ InTrap(t) => (rv[t] = <<>> /\ Len(kres[t]) + 1 = Len(trapw[t]))

C7_Step ==
    \A t \in Threads :
        InTrap(t) =>
            \/ Own(t)' = Own(t)
            \/ /\ stack'[t] = Pop(stack[t])
               /\ Len(kres'[t]) = Len(kres[t]) + 1
               /\ rv'[t] = <<Last(kres'[t])>>

C7_Synchronous == [](C7_State) /\ [][C7_Step]_vars

C7_Witness ==
    \E t, u \in Threads :
        /\ t # u
        /\ InTrap(t) /\ IsWriteCall(t) /\ kres[t] = <<>>
        /\ Done(u) /\ IsInvokerCall(u) /\ kres[u] # <<>>

\* C8: every call issues exactly one trap: a call never holds more than one
\* trap, a completed call holds exactly one, and the number of traps equals
\* the number of calls started less the calls that have not yet trapped.
NotYetTrapped == { t \in Threads : stack[t] # <<>> /\ trapw[t] = <<>> }

C8_ExactlyOneTrap ==
    /\ \A t \in Threads :
          /\ Len(trapw[t]) <= 1
          /\ Done(t) => Len(trapw[t]) = 1
    /\ traps = calls - Cardinality(NotYetTrapped)
    /\ (\A t \in Threads : stack[t] = <<>>) => traps = calls

C8_Witness ==
    /\ calls = 2 /\ traps = 2
    /\ \A t \in Threads : stack[t] = <<>>
    /\ \E t \in Threads : Done(t) /\ kres[t] = <<-14>>

\* C9: write widens its inputs without changing their bits: a negative fd
\* arrives as the same negative word, a count above the largest signed word
\* arrives as count - 2^w (negative), and no input is rejected or clamped.
C9_Conversions ==
    \A t \in Threads :
        IsWriteCall(t) =>
            /\ Done(t) => Delivered(t)
            /\ Delivered(t) =>
                LET w == trapw[t][1]
                    fd == call[t][1].a[1]
                    count == call[t][1].a[3]
                IN  /\ w[2] = fd
                    /\ fd < 0 => w[2] < 0
                    /\ count > MaxWord => (w[4] = count - WordMod /\ w[4] < 0)
                    /\ count <= MaxWord => w[4] = count
                    /\ w[4] % WordMod = count

C9_Witness ==
    \E t \in Threads :
        /\ InTrap(t) /\ call[t] = <<Frame("write", <<-1, HighBuf, WordMod - 1>>)>>
        /\ Top(t).a = <<0, -1, HighBuf - WordMod, -1, 0, 0, 0>>

\* C10: the words delivered depend on the call's own arguments only: two
\* calls with equal arguments deliver equal words whatever happened before,
\* and write always uses syscall number 0.
C10_HistoryIndependent ==
    /\ \A t, u \in Threads :
          (Delivered(t) /\ Delivered(u) /\ call[t] = call[u]) => trapw[t][1] = trapw[u][1]
    /\ \A t \in Threads :
          (IsWriteCall(t) /\ Delivered(t)) => trapw[t][1][1] = 0
    /\ \A t \in Threads :
          (InFn(t, "__syscall3") /\ IsWriteCall(t)) => Top(t).a[1] = 0

C10_Witness ==
    \E t, u \in Threads :
        /\ t # u /\ calls = 2 /\ traps = 2
        /\ call[t] = call[u] /\ IsWriteCall(t)
        /\ Done(t) /\ rv[t] = <<-14>>
        /\ InTrap(u)

====
